---- MODULE Spec2Model ----
(***************************************************************************)
(* Model of the messenger training sources:                                *)
(*   src/sections/06-runtime-validation.ts  (superstruct schemas, fetch +  *)
(*       assert, notification dispatch, property based type guards)        *)
(*   src/sections/08-function-overloads.ts  (sendMessage, sendMessage_Bad) *)
(*   src/sections/04-utility-types.ts       (fetchConversation)            *)
(*                                                                         *)
(* JavaScript values are records with a kind field.  An object keeps the   *)
(* insertion order of its keys (keys) next to its key -> value map (val).  *)
(***************************************************************************)
EXTENDS Integers, Sequences, FiniteSets, TLC

VARIABLES
    pc,         \* position of the running call ("idle" when none runs)
    data,       \* the raw payload held by the running async function
    message,    \* the argument of sendMessage / createSafeNotification
    result,     \* outcome of the running call: [status, value]
    checked,    \* name of the schema `data` was asserted against, or "none"
    failures,   \* the failures of that assert, in the order they were yielded
    processed,  \* what processMessage logged, <<>> while it has not run
    branch,     \* the branch displayLastNotification took, "none" before
    requests    \* POST requests started by sendMessage and not yet settled

vars == <<pc, data, message, result, checked, failures, processed, branch,
          requests>>

----------------------------------------------------------------------------
(* Bounds *)

\* most fire-and-forget requests in flight at once
MaxRequests == 2

\* longest answerIds array in a completion
MaxAnswerIds == 4

\* longest array handed to batchArray and largest maxBatchSize
MaxArrayLen == 10
MaxBatchSize == 4

\* largest magnitude of the integers handed to transformBasedOnParameter
MaxValue == 2

----------------------------------------------------------------------------
(* JavaScript values *)

Undefined == [kind |-> "undefined", val |-> 0]
Null      == [kind |-> "null", val |-> 0]
Str(s)    == [kind |-> "string", val |-> s]
Num(n)    == [kind |-> "number", val |-> n]
Arr(s)    == [kind |-> "array", val |-> s]
Bool(b)   == [kind |-> "boolean", val |-> b]
\* the number NaN
NaN       == [kind |-> "nan", val |-> "NaN"]
\* an Error object carrying its message
Err(m)    == [kind |-> "error", val |-> m]

RECURSIVE SeqToSet(_)
SeqToSet(s) == IF s = <<>> THEN {} ELSE {Head(s)} \cup SeqToSet(Tail(s))

\* an object literal: `order` is the order the keys were written in, `c` maps
\* every candidate key to its value, Undefined standing for "key not written"
ObjOf(order, c) ==
    LET present(k) == c[k].kind # "undefined"
    IN  [kind |-> "object",
         keys |-> SelectSeq(order, present),
         val  |-> [k \in {x \in SeqToSet(order) : present(x)} |-> c[k]]]

\* `key in value`
HasKey(v, k) == v.kind = "object" /\ k \in DOMAIN v.val

\* typeof value
TypeOf(v) ==
    CASE v.kind = "string"    -> "string"
      [] v.kind = "number"    -> "number"
      [] v.kind = "nan"       -> "number"
      [] v.kind = "undefined" -> "undefined"
      [] v.kind = "boolean"   -> "boolean"
      [] OTHER                -> "object"

\* Object.keys(value), in insertion order (indices for an array)
Keys(v) ==
    CASE v.kind = "object" -> v.keys
      [] v.kind = "array"  -> [i \in 1..Len(v.val) |-> ToString(i - 1)]
      [] OTHER             -> <<>>

\* value[key] for an object or an array (undefined when missing)
Get(v, k) ==
    CASE v.kind = "object" -> IF k \in DOMAIN v.val THEN v.val[k] ELSE Undefined
      [] v.kind = "array"  ->
            IF \E i \in 1..Len(v.val) : ToString(i - 1) = k
            THEN v.val[CHOOSE i \in 1..Len(v.val) : ToString(i - 1) = k]
            ELSE Undefined
      [] OTHER             -> Undefined

----------------------------------------------------------------------------
(* superstruct, as imported by src/sections/06-runtime-validation.ts.        *)
(* A struct is a descriptor; run walks a value against it and yields the     *)
(* failures in the order the library yields them.                            *)

string == [type |-> "string"]
number == [type |-> "number"]
never  == [type |-> "never"]
optional(S)  == [type |-> "optional", of |-> S]
\* fields: the schema's properties in declaration order, each <<key, struct>>
object(fields) == [type |-> "object", schema |-> fields]
record(K, V) == [type |-> "record", key |-> K, value |-> V]
array(E)     == [type |-> "array", element |-> E]
union(Ss)    == [type |-> "union", structs |-> Ss]

\* one failure: where it is and which struct type was expected there
Failure(path, type) == [path |-> path, type |-> type]

\* typeof value === "object" && value != null
isObject(v) == v.kind \in {"object", "array"}

SchemaKeys(fields) == {fields[i][1] : i \in 1..Len(fields)}

RECURSIVE run(_, _, _)
RECURSIVE runKnowns(_, _, _, _)
RECURSIVE runUnknowns(_, _, _, _)
RECURSIVE runRecord(_, _, _, _)
RECURSIVE runArray(_, _, _, _)
RECURSIVE runUnion(_, _, _, _)
RECURSIVE anyPasses(_, _, _, _)

\* object(): the declared properties, in declaration order
runKnowns(v, fields, path, i) ==
    IF i > Len(fields) THEN <<>>
    ELSE run(Get(v, fields[i][1]), fields[i][2], Append(path, fields[i][1]))
         \o runKnowns(v, fields, path, i + 1)

\* object(): every key of the value the schema does not declare fails never()
runUnknowns(v, fields, path, i) ==
    IF i > Len(Keys(v)) THEN <<>>
    ELSE (IF Keys(v)[i] \in SchemaKeys(fields) THEN <<>>
          ELSE run(Get(v, Keys(v)[i]), never, Append(path, Keys(v)[i])))
         \o runUnknowns(v, fields, path, i + 1)

\* record(): each key against Key, then its value against Value
runRecord(v, S, path, i) ==
    IF i > Len(Keys(v)) THEN <<>>
    ELSE run(Str(Keys(v)[i]), S.key, Append(path, Keys(v)[i]))
         \o run(Get(v, Keys(v)[i]), S.value, Append(path, Keys(v)[i]))
         \o runRecord(v, S, path, i + 1)

\* array(): each element against Element, tagged with its index
runArray(v, S, path, i) ==
    IF i > Len(v.val) THEN <<>>
    ELSE run(v.val[i], S.element, Append(path, ToString(i - 1)))
         \o runArray(v, S, path, i + 1)

\* union(): the failures of every member, in declaration order
runUnion(v, Ss, path, i) ==
    IF i > Len(Ss) THEN <<>>
    ELSE run(v, Ss[i], path) \o runUnion(v, Ss, path, i + 1)

\* union(): whether some member, tried in declaration order, has no failure
anyPasses(v, Ss, path, i) ==
    IF i > Len(Ss) THEN FALSE
    ELSE run(v, Ss[i], path) = <<>> \/ anyPasses(v, Ss, path, i + 1)

run(v, S, path) ==
    CASE S.type = "string" ->
            IF TypeOf(v) = "string" THEN <<>> ELSE <<Failure(path, "string")>>
      [] S.type = "number" ->
            IF TypeOf(v) = "number" /\ v # NaN
            THEN <<>> ELSE <<Failure(path, "number")>>
      [] S.type = "never" -> <<Failure(path, "never")>>
      [] S.type = "optional" ->
            IF v.kind = "undefined" THEN <<>> ELSE run(v, S.of, path)
      [] S.type = "object" ->
            IF isObject(v)
            THEN runKnowns(v, S.schema, path, 1) \o runUnknowns(v, S.schema, path, 1)
            ELSE <<Failure(path, "object")>>
      [] S.type = "record" ->
            IF isObject(v) THEN runRecord(v, S, path, 1)
            ELSE <<Failure(path, "record")>>
      [] S.type = "array" ->
            IF v.kind = "array" THEN runArray(v, S, path, 1)
            ELSE <<Failure(path, "array")>>
      [] S.type = "union" ->
            IF anyPasses(v, S.structs, path, 1) THEN <<>>
            ELSE <<Failure(path, "union")>> \o runUnion(v, S.structs, path, 1)

\* is(value, struct): true when validation yields no failure
is(v, S) == run(v, S, <<>>) = <<>>

\* assert(value, struct): returns normally on a valid value, otherwise throws
\* a StructError built from the failures; this is what the caller observes
assertOutcome(v, S) ==
    IF run(v, S, <<>>) = <<>>
    THEN [status |-> "returned", failures |-> <<>>]
    ELSE [status |-> "threw", failures |-> run(v, S, <<>>)]

----------------------------------------------------------------------------
(* Schemas of src/sections/06-runtime-validation.ts *)

ImageSchema ==
    object(<< <<"url", string>>, <<"width", number>>,
              <<"height", number>>, <<"caption", string>> >>)

VideoSchema ==
    object(<< <<"url", string>>, <<"duration", number>>,
              <<"thumbnail", string>>, <<"title", string>> >>)

\* MessageSchema whose timestamp also admits a string
MessageSchema_LenientTimestamp ==
    object(<< <<"id", string>>,
              <<"sender", string>>,
              <<"text", optional(string)>>,
              <<"timestamp", union(<<number, string>>)>>,
              <<"reactions", optional(record(string, number))>>,
              <<"image", optional(ImageSchema)>>,
              <<"video", optional(VideoSchema)>> >>)

\* MessageSchema with timestamp declared before id
MessageSchema_TimestampFirst ==
    object(<< <<"timestamp", number>>,
              <<"id", string>>,
              <<"sender", string>>,
              <<"text", optional(string)>>,
              <<"reactions", optional(record(string, number))>>,
              <<"image", optional(ImageSchema)>>,
              <<"video", optional(VideoSchema)>> >>)

\* MessageSchema with image declared without optional()
MessageSchema_ImageRequired ==
    object(<< <<"id", string>>,
              <<"sender", string>>,
              <<"text", optional(string)>>,
              <<"timestamp", number>>,
              <<"reactions", optional(record(string, number))>>,
              <<"image", ImageSchema>>,
              <<"video", optional(VideoSchema)>> >>)

MessageSchema ==
    object(<< <<"id", string>>,
              <<"sender", string>>,
              <<"text", optional(string)>>,
              <<"timestamp", number>>,
              <<"reactions", optional(record(string, number))>>,
              <<"image", optional(ImageSchema)>>,
              <<"video", optional(VideoSchema)>> >>)

FriendRequestSchema ==
    object(<< <<"id", string>>, <<"sender", string>>,
              <<"recipient", string>>, <<"status", string>> >>)

NewMessageSchema ==
    object(<< <<"id", string>>, <<"sender", string>>,
              <<"text", string>>, <<"timestamp", number>> >>)

\* ApplicationUpdateSchema left as a pasted copy of NewMessageSchema
ApplicationUpdateSchema_Pasted ==
    object(<< <<"id", string>>, <<"sender", string>>,
              <<"text", string>>, <<"timestamp", number>> >>)

ApplicationUpdateSchema ==
    object(<< <<"newVersion", string>>, <<"releaseNotes", string>>,
              <<"downloadLink", string>> >>)

NotificationSchema ==
    union(<<FriendRequestSchema, NewMessageSchema, ApplicationUpdateSchema>>)

\* ChatGPTResponseDataType with answerIds declared array(string())
ChatGPTResponseDataType_StringIds ==
    object(<< <<"themes",
                array(object(<< <<"summary", string>>,
                                <<"answerIds", array(string)>> >>))>> >>)

ChatGPTResponseDataType ==
    object(<< <<"themes",
                array(object(<< <<"summary", string>>,
                                <<"answerIds", array(number)>> >>))>> >>)

----------------------------------------------------------------------------
(* Inputs: what the network may answer and what callers may pass *)

\* an object literal whose keys are all written, in the order `keys`
Obj(keys, f) == [kind |-> "object", keys |-> keys, val |-> f]

\* String(value) / template literal interpolation
ToStr(v) ==
    CASE v.kind = "string"    -> v.val
      [] v.kind = "number"    -> ToString(v.val)
      [] v.kind = "nan"       -> "NaN"
      [] v.kind = "undefined" -> "undefined"
      [] v.kind = "null"      -> "null"
      [] OTHER                -> "[object Object]"

\* a response body that is not JSON: response.json() rejects on it
InvalidJson == [kind |-> "invalid-json", val |-> 0]

ImageOk ==
    Obj(<<"url", "width", "height", "caption">>,
        [url |-> Str("a.jpg"), width |-> Num(800), height |-> Num(600),
         caption |-> Str("sunset")])
ImageNoWidth ==
    Obj(<<"url", "height", "caption">>,
        [url |-> Str("a.jpg"), height |-> Num(600), caption |-> Str("sunset")])
ImageWidthString ==
    Obj(<<"url", "width", "height", "caption">>,
        [url |-> Str("a.jpg"), width |-> Str("800"), height |-> Num(600),
         caption |-> Str("sunset")])
VideoOk ==
    Obj(<<"url", "duration", "thumbnail", "title">>,
        [url |-> Str("v.mp4"), duration |-> Num(120),
         thumbnail |-> Str("t.jpg"), title |-> Str("clip")])
VideoNoDuration ==
    Obj(<<"url", "thumbnail", "title">>,
        [url |-> Str("v.mp4"), thumbnail |-> Str("t.jpg"), title |-> Str("clip")])
ReactionsOk  == Obj(<<"thumbsup">>, [thumbsup |-> Num(3)])
ReactionsBad == Obj(<<"thumbsup">>, [thumbsup |-> Str("3")])

MessageKeyOrder == <<"id", "sender", "text", "timestamp", "reactions",
                     "image", "video", "extra">>
MessageKeyOrderRev == <<"extra", "video", "image", "reactions", "timestamp",
                        "text", "sender", "id">>

\* bodies /api/messages/:id may answer with: every combination of a declared
\* field being absent, well-kinded or ill-kinded, with or without an
\* undeclared key, written in either key order, and a few non-objects
MessageChoices ==
    [id        : {Undefined, Str("42"), Num(42)},
     sender    : {Undefined, Str("Alice")},
     text      : {Undefined, Str("hi"), Num(7)},
     timestamp : {Undefined, Num(5), Str("5")},
     reactions : {Undefined, ReactionsOk, ReactionsBad},
     image     : {Undefined, ImageOk, ImageNoWidth, ImageWidthString},
     video     : {Undefined, VideoOk, VideoNoDuration},
     extra     : {Undefined, Str("ignored")}]

MessagePayloads ==
    {ObjOf(MessageKeyOrder, c) : c \in MessageChoices}
    \cup {ObjOf(MessageKeyOrderRev, c) : c \in MessageChoices}
    \cup {Null, Str("oops"), Num(1), Arr(<<>>)}

NotificationKeyOrder == <<"id", "sender", "recipient", "status", "text",
                          "timestamp", "newVersion", "releaseNotes",
                          "downloadLink">>

\* bodies /api/notifications/last may answer with
NotificationChoices ==
    [id           : {Undefined, Str("n1")},
     sender       : {Undefined, Str("Bob")},
     recipient    : {Undefined, Str("Alice")},
     status       : {Undefined, Str("pending"), Num(1)},
     text         : {Undefined, Str("hello")},
     timestamp    : {Undefined, Num(5), Str("5")},
     newVersion   : {Undefined, Str("2.0")},
     releaseNotes : {Undefined, Str("fixes")},
     downloadLink : {Undefined, Str("http://dl"), Num(0)}]

NotificationPayloads ==
    {ObjOf(NotificationKeyOrder, c) : c \in NotificationChoices}
    \cup {Null, Str("oops"), Arr(<<>>)}

\* bodies /api/conversations/:id may answer with
ConversationOk ==
    Obj(<<"conversation", "messages", "unreadCount", "lastActivity">>,
        [conversation |-> Obj(<<"id", "title", "participants">>,
                              [id |-> Str("conv-123"), title |-> Str("Team"),
                               participants |-> Arr(<<>>)]),
         messages     |-> Arr(<<>>),
         unreadCount  |-> Num(0),
         lastActivity |-> Num(5)])
ConversationPayloads ==
    {ConversationOk,
     Obj(<<"conversation">>, [conversation |-> Num(5)]),
     Obj(<<"messages">>, [messages |-> Str("none")]),
     Null, Str("oops"), Arr(<<>>)}

\* answerIds arrays the completion may hold: numbers and strings mixed
AnswerIdArrays ==
    UNION {[1..n -> {Num(1), Num(3), Str("x"), Str("y")}] : n \in 0..MaxAnswerIds}

Theme(a) ==
    Obj(<<"summary", "answerIds">>, [summary |-> Str("topic"), answerIds |-> Arr(a)])

\* what JSON.parse(responseText) may give
ChatGPTPayloads ==
    {Obj(<<"themes">>, [themes |-> Arr(<<Theme(a)>>)]) : a \in AnswerIdArrays}
    \cup {Obj(<<"themes">>, [themes |-> Arr(<<>>)]),
          Obj(<<"themes">>, [themes |-> Arr(<<Theme(<<Num(1)>>), Theme(<<Str("x")>>)>>)]),
          Obj(<<"themes">>, [themes |-> Str("none")]),
          Obj(<<"topics">>, [topics |-> Arr(<<>>)]),
          Null, Str("Hello, world!")}

\* Date.now()
Clock == {60005, 120005}

----------------------------------------------------------------------------
(* src/sections/08-function-overloads.ts *)

\* generateId(): Math.random().toString(36).substring(2, 10)
generateId == {"k3j9x2p1", "a0b1c2d3"}

SendKeyOrder == <<"recipient", "type", "text", "imageUrl", "caption",
                  "videoUrl", "duration", "thumbnail", "audioUrl">>

TextMessages ==
    {ObjOf(SendKeyOrder, c) : c \in
        [recipient : {Str("user123")}, type : {Str("text")},
         text : {Str("Hello there!"), Str("Bye")},
         imageUrl : {Undefined, Str("image.jpg")},
         caption : {Undefined}, videoUrl : {Undefined}, duration : {Undefined},
         thumbnail : {Undefined}, audioUrl : {Undefined}]}
ImageMessages ==
    {ObjOf(SendKeyOrder, c) : c \in
        [recipient : {Str("user123")}, type : {Str("image")},
         text : {Undefined}, imageUrl : {Str("image.jpg"), Str("b.png")},
         caption : {Undefined, Str("My vacation")},
         videoUrl : {Undefined}, duration : {Undefined},
         thumbnail : {Undefined}, audioUrl : {Undefined}]}
VideoMessages ==
    {ObjOf(SendKeyOrder, c) : c \in
        [recipient : {Str("user123")}, type : {Str("video")},
         text : {Undefined}, imageUrl : {Undefined}, caption : {Undefined},
         videoUrl : {Str("video.mp4")}, duration : {Num(120), Num(45)},
         thumbnail : {Undefined, Str("thumb.jpg")}, audioUrl : {Undefined}]}
\* values that reach the function at run time with a tag it has no case for
UnhandledMessages ==
    {ObjOf(SendKeyOrder, c) : c \in
        [recipient : {Str("user123")}, type : {Undefined, Str("audio")},
         text : {Undefined}, imageUrl : {Undefined}, caption : {Undefined},
         videoUrl : {Undefined}, duration : {Undefined},
         thumbnail : {Undefined}, audioUrl : {Str("a.mp3")}]}

HandledMessages == TextMessages \cup ImageMessages \cup VideoMessages
SendMessages == HandledMessages \cup UnhandledMessages

\* the part of a call's outcome the caller observes
Returned(v) == [status |-> "returned", value |-> v]
Threw(m)    == [status |-> "threw", value |-> Err(m)]

\* sendMessage_Bad whose video response leaves the thumbnail out
sendMessage_Bad_NoThumbnail(m, id, timestamp) ==
    IF Get(m, "type") = Str("text") THEN
        Returned(Obj(<<"type", "id", "timestamp", "deliveryStatus", "content">>,
            [type |-> Str("text"), id |-> Str(id), timestamp |-> Num(timestamp),
             deliveryStatus |-> Str("sent"),
             content |-> Obj(<<"text">>, [text |-> Get(m, "text")])]))
    ELSE IF Get(m, "type") = Str("image") THEN
        Returned(Obj(<<"type", "id", "timestamp", "deliveryStatus", "content">>,
            [type |-> Str("image"), id |-> Str(id), timestamp |-> Num(timestamp),
             deliveryStatus |-> Str("sent"),
             content |-> Obj(<<"imageUrl", "uploadStatus", "progress">>,
                 [imageUrl |-> Get(m, "imageUrl"),
                  uploadStatus |-> Str("complete"), progress |-> Num(100)])]))
    ELSE IF Get(m, "type") = Str("video") THEN
        Returned(Obj(<<"type", "id", "timestamp", "deliveryStatus", "content">>,
            [type |-> Str("video"), id |-> Str(id), timestamp |-> Num(timestamp),
             deliveryStatus |-> Str("sent"),
             content |-> Obj(<<"videoUrl", "processingStatus">>,
                 [videoUrl |-> Get(m, "videoUrl"),
                  processingStatus |-> Str("processing")])]))
    ELSE Threw("Unsupported message type")

\* sendMessage_Bad after its fetch(): the if / else if chain and final throw
sendMessage_Bad(m, id, timestamp) ==
    IF Get(m, "type") = Str("text") THEN
        Returned(Obj(<<"type", "id", "timestamp", "deliveryStatus", "content">>,
            [type |-> Str("text"), id |-> Str(id), timestamp |-> Num(timestamp),
             deliveryStatus |-> Str("sent"),
             content |-> Obj(<<"text">>, [text |-> Get(m, "text")])]))
    ELSE IF Get(m, "type") = Str("image") THEN
        Returned(Obj(<<"type", "id", "timestamp", "deliveryStatus", "content">>,
            [type |-> Str("image"), id |-> Str(id), timestamp |-> Num(timestamp),
             deliveryStatus |-> Str("sent"),
             content |-> Obj(<<"imageUrl", "uploadStatus", "progress">>,
                 [imageUrl |-> Get(m, "imageUrl"),
                  uploadStatus |-> Str("complete"), progress |-> Num(100)])]))
    ELSE IF Get(m, "type") = Str("video") THEN
        Returned(Obj(<<"type", "id", "timestamp", "deliveryStatus", "content">>,
            [type |-> Str("video"), id |-> Str(id), timestamp |-> Num(timestamp),
             deliveryStatus |-> Str("sent"),
             content |-> Obj(<<"videoUrl", "processingStatus", "thumbnail">>,
                 [videoUrl |-> Get(m, "videoUrl"),
                  processingStatus |-> Str("processing"),
                  thumbnail |-> Get(m, "thumbnail")])]))
    ELSE Threw("Unsupported message type")

\* sendMessage with the "image" case pasted from the "text" case
sendMessage_CopyPastedCase(m, id, timestamp) ==
    CASE Get(m, "type") \in {Str("text"), Str("image")} ->
        Returned(Obj(<<"id", "timestamp", "deliveryStatus", "type", "content">>,
            [id |-> Str(id), timestamp |-> Num(timestamp),
             deliveryStatus |-> Str("sent"), type |-> Str("text"),
             content |-> Obj(<<"text">>, [text |-> Get(m, "text")])]))
      [] Get(m, "type") = Str("video") ->
        Returned(Obj(<<"id", "timestamp", "deliveryStatus", "type", "content">>,
            [id |-> Str(id), timestamp |-> Num(timestamp),
             deliveryStatus |-> Str("sent"), type |-> Str("video"),
             content |-> Obj(<<"videoUrl", "processingStatus", "thumbnail">>,
                 [videoUrl |-> Get(m, "videoUrl"),
                  processingStatus |-> Str("processing"),
                  thumbnail |-> Get(m, "thumbnail")])]))
      [] OTHER -> Returned(Undefined)

\* sendMessage after its fetch(): the switch; with no matching case control
\* leaves the switch and the function ends without a return statement
sendMessage(m, id, timestamp) ==
    CASE Get(m, "type") = Str("text") ->
        Returned(Obj(<<"id", "timestamp", "deliveryStatus", "type", "content">>,
            [id |-> Str(id), timestamp |-> Num(timestamp),
             deliveryStatus |-> Str("sent"), type |-> Str("text"),
             content |-> Obj(<<"text">>, [text |-> Get(m, "text")])]))
      [] Get(m, "type") = Str("image") ->
        Returned(Obj(<<"id", "timestamp", "deliveryStatus", "type", "content">>,
            [id |-> Str(id), timestamp |-> Num(timestamp),
             deliveryStatus |-> Str("sent"), type |-> Str("image"),
             content |-> Obj(<<"imageUrl", "uploadStatus", "progress">>,
                 [imageUrl |-> Get(m, "imageUrl"),
                  uploadStatus |-> Str("complete"), progress |-> Num(100)])]))
      [] Get(m, "type") = Str("video") ->
        Returned(Obj(<<"id", "timestamp", "deliveryStatus", "type", "content">>,
            [id |-> Str(id), timestamp |-> Num(timestamp),
             deliveryStatus |-> Str("sent"), type |-> Str("video"),
             content |-> Obj(<<"videoUrl", "processingStatus", "thumbnail">>,
                 [videoUrl |-> Get(m, "videoUrl"),
                  processingStatus |-> Str("processing"),
                  thumbnail |-> Get(m, "thumbnail")])]))
      [] OTHER -> Returned(Undefined)

----------------------------------------------------------------------------
(* src/sections/06-runtime-validation.ts: property based type guards *)

GuardKeyOrder == <<"id", "sender", "timestamp", "text", "imageUrl", "width",
                   "height", "videoUrl", "duration">>

\* arguments of createSafeNotification: the base fields plus every
\* combination of the variant fields being absent, well-kinded or ill-kinded
GuardMessages ==
    {ObjOf(GuardKeyOrder, c) : c \in
        [id : {Str("1")}, sender : {Str("Alice")}, timestamp : {Num(1000)},
         text : {Undefined, Str("hi"), Num(7)},
         imageUrl : {Undefined, Str("photo.jpg")},
         width : {Undefined, Num(800), Str("800")},
         height : {Undefined, Num(600)},
         videoUrl : {Undefined, Str("video.mp4")},
         duration : {Undefined, Num(125), Str("125")}]}

isTextMessage(m) == HasKey(m, "text")

isImageMessage(m) ==
    /\ HasKey(m, "imageUrl") /\ TypeOf(Get(m, "imageUrl")) = "string"
    /\ HasKey(m, "width")    /\ TypeOf(Get(m, "width")) = "number"
    /\ HasKey(m, "height")   /\ TypeOf(Get(m, "height")) = "number"

\* isVideoMessage that also refuses a message carrying an imageUrl
isVideoMessage_NoImageUrl(m) ==
    /\ HasKey(m, "videoUrl") /\ TypeOf(Get(m, "videoUrl")) = "string"
    /\ HasKey(m, "duration") /\ TypeOf(Get(m, "duration")) = "number"
    /\ ~HasKey(m, "imageUrl")

isVideoMessage(m) ==
    /\ HasKey(m, "videoUrl") /\ TypeOf(Get(m, "videoUrl")) = "string"
    /\ HasKey(m, "duration") /\ TypeOf(Get(m, "duration")) = "number"

\* createSafeNotification with the image guard tested before the text guard
createSafeNotification_ImageFirst(m) ==
    IF isImageMessage(m) THEN
        Returned(Str(ToStr(Get(m, "sender")) \o " sent an image ("
                     \o ToStr(Get(m, "width")) \o "x"
                     \o ToStr(Get(m, "height")) \o ")"))
    ELSE IF isTextMessage(m) THEN
        Returned(Str(ToStr(Get(m, "sender")) \o " texted \""
                     \o ToStr(Get(m, "text")) \o "\""))
    ELSE IF isVideoMessage(m) THEN
        LET minutes == Get(m, "duration").val \div 60
            seconds == Get(m, "duration").val % 60
        IN  Returned(Str(ToStr(Get(m, "sender")) \o " sent a video ("
                         \o ToString(minutes) \o ":" \o ToString(seconds) \o ")"))
    ELSE Threw("Unknown message type")

createSafeNotification(m) ==
    IF isTextMessage(m) THEN
        Returned(Str(ToStr(Get(m, "sender")) \o " texted \""
                     \o ToStr(Get(m, "text")) \o "\""))
    ELSE IF isImageMessage(m) THEN
        Returned(Str(ToStr(Get(m, "sender")) \o " sent an image ("
                     \o ToStr(Get(m, "width")) \o "x"
                     \o ToStr(Get(m, "height")) \o ")"))
    ELSE IF isVideoMessage(m) THEN
        LET minutes == Get(m, "duration").val \div 60
            seconds == Get(m, "duration").val % 60
        IN  Returned(Str(ToStr(Get(m, "sender")) \o " sent a video ("
                         \o ToString(minutes) \o ":" \o ToString(seconds) \o ")"))
    ELSE Threw("Unknown message type")

----------------------------------------------------------------------------
(* src/sections/06-runtime-validation.ts: discriminated union type guards *)

BetterKeyOrder == <<"type", "text", "imageUrl", "videoUrl">>

\* values of type BetterMessage: the tag, the tagged variant's own field and,
\* as structural typing allows, any of the other variants' fields
BetterMessages ==
    {b \in {ObjOf(BetterKeyOrder, c) : c \in
                [type : {Str("text"), Str("image"), Str("video")},
                 text : {Undefined, Str("hi")},
                 imageUrl : {Undefined, Str("photo.jpg")},
                 videoUrl : {Undefined, Str("video.mp4")}]} :
        \/ Get(b, "type") = Str("text")  /\ HasKey(b, "text")
        \/ Get(b, "type") = Str("image") /\ HasKey(b, "imageUrl")
        \/ Get(b, "type") = Str("video") /\ HasKey(b, "videoUrl")}

betterIsTextMessage(m) == Get(m, "type") = Str("text")

\* betterIsImageMessage probing for the imageUrl property instead of the tag
betterIsImageMessage_ByProperty(m) == HasKey(m, "imageUrl")

betterIsImageMessage(m) == Get(m, "type") = Str("image")

betterIsVideoMessage(m) == Get(m, "type") = Str("video")

----------------------------------------------------------------------------
(* src/sections/07-generic-functions.ts: batchArray *)

\* Array.prototype.slice(start, end) for 0 <= start <= end: the elements at
\* the 0-based indices start .. min(end, length) - 1
slice_EndInclusive(a, start, end) ==
    SubSeq(a, start + 1, IF end + 1 < Len(a) THEN end + 1 ELSE Len(a))

slice(a, start, end) ==
    SubSeq(a, start + 1, IF end < Len(a) THEN end ELSE Len(a))

\* the for loop: i is the loop variable, batches the array built so far
RECURSIVE batchArrayLoop(_, _, _, _)
batchArrayLoop(items, maxBatchSize, i, batches) ==
    IF i < Len(items)
    THEN batchArrayLoop(items, maxBatchSize, i + maxBatchSize,
                        Append(batches, Arr(slice(items, i, i + maxBatchSize))))
    ELSE batches

batchArray(items, maxBatchSize) ==
    Arr(batchArrayLoop(items.val, maxBatchSize.val, 0, <<>>))

\* the arrays [1, 2, ..., n] and the batch sizes batchArray is called with
BatchInputs == {Arr([j \in 1..n |-> Num(j)]) : n \in 0..MaxArrayLen}
BatchSizes  == {Num(k) : k \in 1..MaxBatchSize}

----------------------------------------------------------------------------
(* src/sections/06-runtime-validation.ts: processMessage *)

\* ToNumber(value) as the - operator applies it; NaN is <<"NaN">>
IsNumeric(v) == v.kind = "number" \/ v = Str("5") \/ v = Str("3") \/ v.kind = "null"
ToNumber(v) ==
    CASE v.kind = "number" -> v.val
      [] v = Str("5")      -> 5
      [] v = Str("3")      -> 3
      [] OTHER             -> 0

\* a + b of the reducer: numeric addition of two numbers, otherwise the
\* concatenation of the two operands' string forms
Plus(a, b) ==
    IF a.kind = "number" /\ b.kind = "number" THEN Num(a.val + b.val)
    ELSE Str(ToStr(a) \o ToStr(b))

RECURSIVE Reduce(_, _, _)
\* Object.values(reactions).reduce((a, b) => a + b, acc) from key i on
Reduce(o, acc, i) ==
    IF i > Len(Keys(o)) THEN acc
    ELSE Reduce(o, Plus(acc, Get(o, Keys(o)[i])), i + 1)

\* truthiness of a value in an if condition
Truthy(v) ==
    CASE v.kind \in {"undefined", "null", "nan"} -> FALSE
      [] v.kind = "number" -> v.val # 0
      [] v.kind = "string" -> v.val # ""
      [] OTHER -> TRUE

\* processMessage(message) at time now: the lines it logs, or the TypeError
\* of reading a property of null / undefined
processMessage(m, now) ==
    LET ts == Get(m, "timestamp")
        minutesAgo == IF IsNumeric(ts) THEN ToString((now - ToNumber(ts)) \div 60000)
                      ELSE "NaN"
        first == <<"Sent " \o minutesAgo \o " minutes ago">>
    IN  IF m.kind \in {"null", "undefined"}
        THEN [status |-> "threw", log |-> <<>>]
        ELSE IF Truthy(Get(m, "reactions"))
        THEN [status |-> "returned",
              log |-> Append(first, "Reactions: "
                         \o ToStr(Reduce(Get(m, "reactions"), Num(0), 1)))]
        ELSE [status |-> "returned", log |-> first]

----------------------------------------------------------------------------
(* src/sections/06-runtime-validation.ts: createNotification *)

IncomingKeyOrder == <<"id", "sender", "timestamp", "textContent", "imageUrl",
                      "width", "height", "videoUrl", "duration">>

\* the samples imageMessage (no width/height) and videoMessage (no duration)
imageMessage ==
    Obj(<<"id", "sender", "timestamp", "imageUrl">>,
        [id |-> Str("2"), sender |-> Str("Bob"), timestamp |-> Num(1000),
         imageUrl |-> Str("photo.jpg")])

videoMessage ==
    Obj(<<"id", "sender", "timestamp", "videoUrl">>,
        [id |-> Str("3"), sender |-> Str("Charlie"), timestamp |-> Num(1000),
         videoUrl |-> Str("video.mp4")])

\* arguments of createNotification: the base fields plus every combination of
\* the optional fields of IncomingMessage being absent or present
IncomingMessages ==
    {ObjOf(IncomingKeyOrder, c) : c \in
        [id : {Str("2")}, sender : {Str("Bob")}, timestamp : {Num(1000)},
         textContent : {Undefined, Str(""), Str("How are you doing?")},
         imageUrl : {Undefined, Str("photo.jpg")},
         width : {Undefined, Num(800)},
         height : {Undefined, Num(600)},
         videoUrl : {Undefined, Str("video.mp4")},
         duration : {Undefined, Num(125)}]}
    \cup {imageMessage, videoMessage}

\* the TypeError of calling a method on undefined or null
ToStringOfUndefined == "Cannot read properties of undefined (reading 'toString')"

\* Math.floor(v / n) and v % n for n > 0 and v undefined or a number >= 0
FloorDiv(v, n) == IF v.kind = "number" THEN Num(v.val \div n) ELSE NaN
Remainder(v, n) == IF v.kind = "number" THEN Num(v.val % n) ELSE NaN

createNotification(m) ==
    IF Truthy(Get(m, "textContent")) THEN
        Returned(Str(ToStr(Get(m, "sender")) \o " texted \""
                     \o ToStr(Get(m, "textContent")) \o "\""))
    ELSE IF Truthy(Get(m, "imageUrl")) THEN
        IF Get(m, "width").kind \in {"undefined", "null"}
           \/ Get(m, "height").kind \in {"undefined", "null"}
        THEN Threw(ToStringOfUndefined)
        ELSE Returned(Str(ToStr(Get(m, "sender")) \o " sent an image ("
                          \o ToStr(Get(m, "width")) \o "x"
                          \o ToStr(Get(m, "height")) \o ")"))
    ELSE IF Truthy(Get(m, "videoUrl")) THEN
        LET minutes == FloorDiv(Get(m, "duration"), 60)
            seconds == Remainder(Get(m, "duration"), 60)
        IN  Returned(Str(ToStr(Get(m, "sender")) \o " sent a video ("
                         \o ToStr(minutes) \o ":" \o ToStr(seconds) \o ")"))
    ELSE Returned(Str(ToStr(Get(m, "sender")) \o " sent a message"))

----------------------------------------------------------------------------
(* src/sections/04-utility-types.ts: getSanitizedMessageParts, sanitizeText *)

\* the lower case form of one character, for the letters of the pattern
LowerChar(c) ==
    CASE c = "B" -> "b" [] c = "A" -> "a" [] c = "D" -> "d"
      [] c = "W" -> "w" [] c = "O" -> "o" [] c = "R" -> "r"
      [] OTHER -> c

RECURSIVE LowerCase(_)
LowerCase(s) ==
    IF Len(s) = 0 THEN ""
    ELSE LowerChar(SubSeq(s, 1, 1)) \o LowerCase(SubSeq(s, 2, Len(s)))

\* whether /badWord/ matches text at position i, with or without the i flag
MatchesAt(text, i, ignoreCase) ==
    /\ i + 6 <= Len(text)
    /\ IF ignoreCase
       THEN LowerCase(SubSeq(text, i, i + 6)) = "badword"
       ELSE SubSeq(text, i, i + 6) = "badWord"

\* text.replace(/badWord/, '***') scanning from position i; `global` is the g
\* flag: without it the scan stops after the first match
RECURSIVE replace(_, _, _, _)
replace(text, i, ignoreCase, global) ==
    IF i > Len(text) THEN ""
    ELSE IF MatchesAt(text, i, ignoreCase)
         THEN "***" \o (IF global THEN replace(text, i + 7, ignoreCase, global)
                                  ELSE SubSeq(text, i + 7, Len(text)))
         ELSE SubSeq(text, i, i) \o replace(text, i + 1, ignoreCase, global)

\* sanitizeText with the pattern /badWord/i, without the g flag
sanitizeText_FirstOnly(text) == Str(replace(text.val, 1, TRUE, FALSE))

sanitizeText(text) == Str(replace(text.val, 1, TRUE, TRUE))

\* {...o, [k]: v}: o's keys in their order, k overwritten in place or added
\* at the end
With(o, k, v) ==
    Obj(IF k \in DOMAIN o.val THEN o.keys ELSE Append(o.keys, k),
        [x \in DOMAIN o.val \cup {k} |-> IF x = k THEN v ELSE o.val[x]])

EmptyObject == Obj(<<>>, [x \in {} |-> Undefined])

\* the value returned and the argument object as the call leaves it
getSanitizedMessageParts(m) ==
    LET text     == Get(m, "text")
        metadata == Get(m, "metadata")
        replies  == Get(metadata, "replies")
        messages == Get(replies, "messages")
        result1  == IF text # Undefined
                    THEN With(EmptyObject, "text", sanitizeText(text))
                    ELSE EmptyObject
        result2  == IF messages # Undefined
                    THEN With(result1, "metadata",
                           With(metadata, "replies",
                             With(replies, "messages",
                               Arr([i \in 1..Len(messages.val) |->
                                       sanitizeText(messages.val[i])]))))
                    ELSE result1
    IN  [result |-> result2, message |-> m]

\* texts and reply lists of the messages handed to getSanitizedMessageParts
SanitizeTexts ==
    {"", "hello", "badWord", "a BADWORD and badword!", "badbadWordWord",
     "badWor d"}

ReplyLists ==
    {<<>>, <<Str("ok")>>, <<Str("BadWord?"), Str("fine"), Str("xbadwordbadWord")>>}

MetadataOf(replies) ==
    Obj(<<"edited", "replies">>, [edited |-> Bool(FALSE), replies |-> replies])

\* metadata values: complete ones, one whose replies lack messages and one
\* without replies
Metadatas ==
    {MetadataOf(Obj(<<"count", "messages">>,
                    [count |-> Num(Len(l)), messages |-> Arr(l)])) :
        l \in ReplyLists}
    \cup {MetadataOf(Obj(<<"count">>, [count |-> Num(0)])),
          Obj(<<"edited">>, [edited |-> Bool(TRUE)])}

PartialDraftKeyOrder == <<"sender", "text", "timestamp", "metadata">>

PartialDraftMessages ==
    {ObjOf(PartialDraftKeyOrder, c) : c \in
        [sender : {Undefined, Str("Alice")},
         text : {Undefined} \cup {Str(t) : t \in SanitizeTexts},
         timestamp : {Undefined, Num(1000)},
         metadata : {Undefined} \cup Metadatas]}

----------------------------------------------------------------------------
(* src/sections/07-generic-functions.ts: transformBasedOnParameter *)

\* the numbers and the type arguments the function is called with; "date" is
\* a type argument outside "num" | "str" | "bool"
TransformValues == {Num(n) : n \in (0 - MaxValue)..MaxValue} \cup {NaN}
TransformTypes  == {Str("num"), Str("str"), Str("bool"), Str("date")}

\* transformBasedOnParameter whose "str" branch forgets String()
transformBasedOnParameter_StrUnchanged(value, type) ==
    IF type = Str("num") THEN Returned(value)
    ELSE IF type = Str("str") THEN Returned(value)
    ELSE IF type = Str("bool") THEN Returned(Bool(Truthy(value)))
    ELSE Threw("Invalid type")

transformBasedOnParameter(value, type) ==
    IF type = Str("num") THEN Returned(value)
    ELSE IF type = Str("str") THEN Returned(Str(ToStr(value)))
    ELSE IF type = Str("bool") THEN Returned(Bool(Truthy(value)))
    ELSE Threw("Invalid type")

\* displayLastNotification without its ApplicationUpdateSchema branch
displayLastNotification_NoUpdateBranch(notification) ==
    IF is(notification, FriendRequestSchema) THEN "friendRequest"
    ELSE IF is(notification, NewMessageSchema) THEN "newMessage"
    ELSE "never"

\* the if / else if chain of displayLastNotification: the branch it takes
displayLastNotification(notification) ==
    IF is(notification, FriendRequestSchema) THEN "friendRequest"
    ELSE IF is(notification, NewMessageSchema) THEN "newMessage"
    ELSE IF is(notification, ApplicationUpdateSchema) THEN "applicationUpdate"
    ELSE "never"

----------------------------------------------------------------------------
(* The state machine *)

NoResult == [fn |-> "none", status |-> "none", value |-> Undefined]
Outcome(fn, o) == [fn |-> fn, status |-> o.status, value |-> o.value]

Init ==
    /\ pc = "idle"
    /\ data = Undefined
    /\ message = Undefined
    /\ result = NoResult
    /\ checked = "none"
    /\ failures = <<>>
    /\ processed = <<>>
    /\ branch = "none"
    /\ requests = 0

(* ---- section 08: synchronous calls; the fetch() is started and dropped *)

\* sendMessage without its fetch() call
CallSendMessage_NoFetch ==
    /\ pc = "idle"
    /\ requests < MaxRequests
    /\ \E m \in SendMessages, id \in generateId, timestamp \in Clock :
          /\ message' = m
          /\ result' = Outcome("sendMessage", sendMessage(m, id, timestamp))
    /\ pc' = "done"
    /\ UNCHANGED <<data, checked, failures, processed, branch, requests>>

CallSendMessage ==
    /\ pc = "idle"
    /\ requests < MaxRequests
    /\ \E m \in SendMessages, id \in generateId, timestamp \in Clock :
          /\ message' = m
          /\ result' = Outcome("sendMessage", sendMessage(m, id, timestamp))
    /\ requests' = requests + 1
    /\ pc' = "done"
    /\ UNCHANGED <<data, checked, failures, processed, branch>>

CallSendMessage_Bad ==
    /\ pc = "idle"
    /\ requests < MaxRequests
    /\ \E m \in SendMessages, id \in generateId, timestamp \in Clock :
          /\ message' = m
          /\ result' = Outcome("sendMessage_Bad", sendMessage_Bad(m, id, timestamp))
    /\ requests' = requests + 1
    /\ pc' = "done"
    /\ UNCHANGED <<data, checked, failures, processed, branch>>

\* the same handled message sent through sendMessage_Bad and then through
\* sendMessage, as the usage code of the section does; result holds the two
\* responses in call order
CallSendMessageBothWays ==
    /\ pc = "idle"
    /\ requests + 2 <= MaxRequests
    /\ \E m \in HandledMessages, id1 \in generateId, id2 \in generateId,
          timestamp1 \in Clock, timestamp2 \in Clock :
          /\ timestamp1 <= timestamp2
          /\ message' = m
          /\ result' = Outcome("sendMessage_Bad, sendMessage",
                Returned(Arr(<<sendMessage_Bad(m, id1, timestamp1).value,
                               sendMessage(m, id2, timestamp2).value>>)))
    /\ requests' = requests + 2
    /\ pc' = "done"
    /\ UNCHANGED <<data, checked, failures, processed, branch>>

\* RequestSettles that writes the request's outcome into the response handed
\* out earlier
RequestSettles_MarksFailed ==
    /\ requests > 0
    /\ requests' = requests - 1
    /\ result' = IF result.value.kind = "object"
                 THEN [result EXCEPT !.value =
                          With(result.value, "deliveryStatus", Str("failed"))]
                 ELSE result
    /\ UNCHANGED <<pc, data, message, checked, failures, processed, branch>>

\* a dropped request settles (fulfilled or rejected): nobody awaits it
RequestSettles ==
    /\ requests > 0
    /\ requests' = requests - 1
    /\ UNCHANGED <<pc, data, message, result, checked, failures, processed, branch>>

(* ---- section 06: createSafeNotification *)

CallCreateSafeNotification ==
    /\ pc = "idle"
    /\ \E m \in GuardMessages :
          /\ message' = m
          /\ result' = Outcome("createSafeNotification", createSafeNotification(m))
    /\ pc' = "done"
    /\ UNCHANGED <<data, checked, failures, processed, branch, requests>>

\* the three discriminant guards applied to one BetterMessage
CallBetterGuards ==
    /\ pc = "idle"
    /\ \E m \in BetterMessages :
          /\ message' = m
          /\ result' = Outcome("betterIs",
                Returned(Obj(<<"text", "image", "video">>,
                    [text  |-> Bool(betterIsTextMessage(m)),
                     image |-> Bool(betterIsImageMessage(m)),
                     video |-> Bool(betterIsVideoMessage(m))])))
    /\ pc' = "done"
    /\ UNCHANGED <<data, checked, failures, processed, branch, requests>>

(* ---- section 07: batchArray *)
CallBatchArray ==
    /\ pc = "idle"
    /\ \E items \in BatchInputs, maxBatchSize \in BatchSizes :
          /\ message' = Obj(<<"array", "maxBatchSize">>,
                            [array |-> items, maxBatchSize |-> maxBatchSize])
          /\ result' = Outcome("batchArray",
                               Returned(batchArray(items, maxBatchSize)))
    /\ pc' = "done"
    /\ UNCHANGED <<data, checked, failures, processed, branch, requests>>

(* ---- section 06: createNotification *)
CallCreateNotification ==
    /\ pc = "idle"
    /\ \E m \in IncomingMessages :
          /\ message' = m
          /\ result' = Outcome("createNotification", createNotification(m))
    /\ pc' = "done"
    /\ UNCHANGED <<data, checked, failures, processed, branch, requests>>

(* ---- section 04: getSanitizedMessageParts *)
\* message records the argument object before and after the call
CallGetSanitizedMessageParts ==
    /\ pc = "idle"
    /\ \E m \in PartialDraftMessages :
          LET out == getSanitizedMessageParts(m)
          IN  /\ message' = Obj(<<"before", "after">>,
                                [before |-> m, after |-> out.message])
              /\ result' = Outcome("getSanitizedMessageParts",
                                   Returned(out.result))
    /\ pc' = "done"
    /\ UNCHANGED <<data, checked, failures, processed, branch, requests>>

(* ---- section 07: transformBasedOnParameter *)
CallTransformBasedOnParameter ==
    /\ pc = "idle"
    /\ \E value \in TransformValues, type \in TransformTypes :
          /\ message' = Obj(<<"value", "type">>, [value |-> value, type |-> type])
          /\ result' = Outcome("transformBasedOnParameter",
                               transformBasedOnParameter(value, type))
    /\ pc' = "done"
    /\ UNCHANGED <<data, checked, failures, processed, branch, requests>>

(* ---- section 06: fetchAndProcessMessage -> fetchMessage -> processMessage *)

fetchAndProcessMessage_call ==
    /\ pc = "idle"
    /\ pc' = "fetchMessage:fetch"
    /\ UNCHANGED <<data, message, result, checked, failures, processed, branch, requests>>

\* await fetch(...): a response arrives, or the request fails and the
\* rejection propagates to the caller
fetchMessage_fetch ==
    /\ pc = "fetchMessage:fetch"
    /\ \/ /\ pc' = "fetchMessage:json"
          /\ UNCHANGED result
       \/ /\ pc' = "done"
          /\ result' = Outcome("fetchMessage", Threw("TypeError: fetch failed"))
    /\ UNCHANGED <<data, message, checked, failures, processed, branch, requests>>

\* fetchMessage going on to assert before response.json() has resolved
fetchMessage_json_NotAwaited ==
    /\ pc = "fetchMessage:json"
    /\ pc' = "fetchMessage:assert"
    /\ UNCHANGED <<data, message, result, checked, failures, processed, branch,
                   requests>>

\* await response.json(): the body parses to data, or json() rejects
fetchMessage_json ==
    /\ pc = "fetchMessage:json"
    /\ \E body \in MessagePayloads \cup {InvalidJson} :
          IF body = InvalidJson
          THEN /\ pc' = "done"
               /\ result' = Outcome("fetchMessage", Threw("SyntaxError"))
               /\ UNCHANGED data
          ELSE /\ pc' = "fetchMessage:assert"
               /\ data' = body
               /\ UNCHANGED result
    /\ UNCHANGED <<message, checked, failures, processed, branch, requests>>

\* fetchMessage testing with is() and dropping the answer
fetchMessage_assert_IgnoresAnswer ==
    /\ pc = "fetchMessage:assert"
    /\ checked' = "MessageSchema"
    /\ failures' = assertOutcome(data, MessageSchema).failures
    /\ result' = Outcome("fetchMessage", Returned(data))
    /\ pc' = "fetchAndProcessMessage:process"
    /\ UNCHANGED <<data, message, processed, branch, requests>>

\* fetchMessage written as fetchMessage_Bad: return data as Message
fetchMessage_assert_Bad ==
    /\ pc = "fetchMessage:assert"
    /\ result' = Outcome("fetchMessage", Returned(data))
    /\ pc' = "fetchAndProcessMessage:process"
    /\ UNCHANGED <<data, message, checked, failures, processed, branch, requests>>

\* value v without its key k
Without(v, k) ==
    IF v.kind = "object" /\ k \in DOMAIN v.val
    THEN [kind |-> "object",
          keys |-> SelectSeq(v.keys, LAMBDA x : x # k),
          val  |-> [x \in DOMAIN v.val \ {k} |-> v.val[x]]]
    ELSE v

\* fetchMessage whose validation deletes the undeclared key it rejects
fetchMessage_assert_StripsUnknown ==
    /\ pc = "fetchMessage:assert"
    /\ checked' = "MessageSchema"
    /\ failures' = assertOutcome(data, MessageSchema).failures
    /\ data' = Without(data, "extra")
    /\ IF assertOutcome(data, MessageSchema).status = "returned"
       THEN /\ result' = Outcome("fetchMessage", Returned(data))
            /\ pc' = "fetchAndProcessMessage:process"
       ELSE /\ result' = Outcome("fetchMessage", Threw("StructError"))
            /\ pc' = "done"
    /\ UNCHANGED <<message, processed, branch, requests>>

\* assert(data, MessageSchema); return data;
fetchMessage_assert ==
    /\ pc = "fetchMessage:assert"
    /\ checked' = "MessageSchema"
    /\ failures' = assertOutcome(data, MessageSchema).failures
    /\ IF assertOutcome(data, MessageSchema).status = "returned"
       THEN /\ result' = Outcome("fetchMessage", Returned(data))
            /\ pc' = "fetchAndProcessMessage:process"
       ELSE /\ result' = Outcome("fetchMessage", Threw("StructError"))
            /\ pc' = "done"
    /\ UNCHANGED <<data, message, processed, branch, requests>>

\* processMessage(message) with the value fetchMessage resolved to
fetchAndProcessMessage_process ==
    /\ pc = "fetchAndProcessMessage:process"
    /\ \E now \in Clock :
          processed' = <<[message |-> result.value,
                          status |-> processMessage(result.value, now).status,
                          log |-> processMessage(result.value, now).log]>>
    /\ pc' = "done"
    /\ UNCHANGED <<data, message, result, checked, failures, branch, requests>>

(* ---- section 06: displayLastNotification -> getLastNotification *)

displayLastNotification_call ==
    /\ pc = "idle"
    /\ pc' = "getLastNotification:fetch"
    /\ UNCHANGED <<data, message, result, checked, failures, processed, branch, requests>>

getLastNotification_fetch ==
    /\ pc = "getLastNotification:fetch"
    /\ \/ /\ pc' = "getLastNotification:json"
          /\ UNCHANGED result
       \/ /\ pc' = "done"
          /\ result' = Outcome("getLastNotification", Threw("TypeError: fetch failed"))
    /\ UNCHANGED <<data, message, checked, failures, processed, branch, requests>>

getLastNotification_json ==
    /\ pc = "getLastNotification:json"
    /\ \E body \in NotificationPayloads \cup {InvalidJson} :
          IF body = InvalidJson
          THEN /\ pc' = "done"
               /\ result' = Outcome("getLastNotification", Threw("SyntaxError"))
               /\ UNCHANGED data
          ELSE /\ pc' = "getLastNotification:assert"
               /\ data' = body
               /\ UNCHANGED result
    /\ UNCHANGED <<message, checked, failures, processed, branch, requests>>

\* assert(data, NotificationSchema); return data;
getLastNotification_assert ==
    /\ pc = "getLastNotification:assert"
    /\ checked' = "NotificationSchema"
    /\ failures' = assertOutcome(data, NotificationSchema).failures
    /\ IF assertOutcome(data, NotificationSchema).status = "returned"
       THEN /\ result' = Outcome("getLastNotification", Returned(data))
            /\ pc' = "displayLastNotification:branch"
       ELSE /\ result' = Outcome("getLastNotification", Threw("StructError"))
            /\ pc' = "done"
    /\ UNCHANGED <<data, message, processed, branch, requests>>

\* the is() chain on the value getLastNotification resolved to
displayLastNotification_branch ==
    /\ pc = "displayLastNotification:branch"
    /\ branch' = displayLastNotification(result.value)
    /\ IF displayLastNotification(result.value) = "never"
       THEN result' = Outcome("displayLastNotification",
                              Threw("This can never happen"))
       ELSE UNCHANGED result
    /\ pc' = "done"
    /\ UNCHANGED <<data, message, checked, failures, processed, requests>>

(* ---- section 04: fetchConversation *)

fetchConversation_call ==
    /\ pc = "idle"
    /\ pc' = "fetchConversation:fetch"
    /\ UNCHANGED <<data, message, result, checked, failures, processed, branch, requests>>

fetchConversation_fetch ==
    /\ pc = "fetchConversation:fetch"
    /\ \/ /\ pc' = "fetchConversation:json"
          /\ UNCHANGED result
       \/ /\ pc' = "done"
          /\ result' = Outcome("fetchConversation", Threw("TypeError: fetch failed"))
    /\ UNCHANGED <<data, message, checked, failures, processed, branch, requests>>

\* const data = await response.json() as ConversationResponse; return data;
fetchConversation_json ==
    /\ pc = "fetchConversation:json"
    /\ \E body \in ConversationPayloads \cup {InvalidJson} :
          IF body = InvalidJson
          THEN /\ result' = Outcome("fetchConversation", Threw("SyntaxError"))
               /\ UNCHANGED data
          ELSE /\ data' = body
               /\ result' = Outcome("fetchConversation", Returned(body))
    /\ pc' = "done"
    /\ UNCHANGED <<message, checked, failures, processed, branch, requests>>

(* ---- section 06: the async handler validating a ChatGPT completion *)

chatGPT_call ==
    /\ pc = "idle"
    /\ pc' = "chatGPT:completions"
    /\ UNCHANGED <<data, message, result, checked, failures, processed, branch,
                   requests>>

\* after await getChatCompletions(messages): JSON.parse(responseText), then
\* assert(chatGPTResponse, ChatGPTResponseDataType)
chatGPT_assert ==
    /\ pc = "chatGPT:completions"
    /\ \E body \in ChatGPTPayloads \cup {InvalidJson} :
          IF body = InvalidJson
          THEN /\ result' = Outcome("chatGPT", Threw("SyntaxError"))
               /\ UNCHANGED <<data, checked, failures>>
          ELSE /\ data' = body
               /\ checked' = "ChatGPTResponseDataType"
               /\ failures' = assertOutcome(body, ChatGPTResponseDataType).failures
               /\ result' =
                     IF assertOutcome(body, ChatGPTResponseDataType).status = "returned"
                     THEN Outcome("chatGPT", Returned(Undefined))
                     ELSE Outcome("chatGPT", Threw("StructError"))
    /\ pc' = "done"
    /\ UNCHANGED <<message, processed, branch, requests>>

(* ---- the call is over; the next one starts from a clean frame *)

Done ==
    /\ pc = "done"
    /\ pc' = "idle"
    /\ data' = Undefined
    /\ message' = Undefined
    /\ result' = NoResult
    /\ checked' = "none"
    /\ failures' = <<>>
    /\ processed' = <<>>
    /\ branch' = "none"
    /\ UNCHANGED requests

Next ==
    \/ CallSendMessage
    \/ CallSendMessage_Bad
    \/ CallSendMessageBothWays
    \/ RequestSettles
    \/ CallCreateSafeNotification
    \/ CallBetterGuards
    \/ CallBatchArray
    \/ CallTransformBasedOnParameter
    \/ CallCreateNotification
    \/ CallGetSanitizedMessageParts
    \/ fetchAndProcessMessage_call
    \/ fetchMessage_fetch
    \/ fetchMessage_json
    \/ fetchMessage_assert
    \/ fetchAndProcessMessage_process
    \/ displayLastNotification_call
    \/ getLastNotification_fetch
    \/ getLastNotification_json
    \/ getLastNotification_assert
    \/ displayLastNotification_branch
    \/ fetchConversation_call
    \/ fetchConversation_fetch
    \/ fetchConversation_json
    \/ chatGPT_call
    \/ chatGPT_assert
    \/ Done

Spec == Init /\ [][Next]_vars

----------------------------------------------------------------------------
(* Properties *)

\* the content key that carries a variant's payload
PayloadKey(type) ==
    CASE type = Str("text")  -> "text"
      [] type = Str("image") -> "imageUrl"
      [] type = Str("video") -> "videoUrl"

\* the keys of a variant's response content
ContentKeys(type) ==
    CASE type = Str("text")  -> <<"text">>
      [] type = Str("image") -> <<"imageUrl", "uploadStatus", "progress">>
      [] type = Str("video") -> <<"videoUrl", "processingStatus", "thumbnail">>

\* C1: for every message of type text, image or video passed to sendMessage,
\* the call returns a response whose type is the message's type and whose
\* content carries that variant's payload (text / imageUrl / videoUrl) taken
\* from the message; the shape of the content depends on the type alone.
C1_ResponseVariantFollowsInput ==
    (result.fn = "sendMessage" /\ message \in HandledMessages) =>
        /\ result.status = "returned"
        /\ Get(result.value, "type") = Get(message, "type")
        /\ Keys(Get(result.value, "content")) = ContentKeys(Get(message, "type"))
        /\ Get(Get(result.value, "content"), PayloadKey(Get(message, "type")))
              = Get(message, PayloadKey(Get(message, "type")))

\* C1 witness: sendMessage has returned the image response of an image message
C1_Witness ==
    /\ result.fn = "sendMessage"
    /\ message \in ImageMessages
    /\ Get(result.value, "type") = Str("image")
    /\ Get(Get(result.value, "content"), "imageUrl") = Str("b.png")

\* C2: called with a message whose type has no handler, sendMessage and
\* sendMessage_Bad both raise an error; neither returns normally.
C2_NoSilentFallThrough ==
    (result.fn \in {"sendMessage", "sendMessage_Bad"}
        /\ message \in UnhandledMessages)
    => result.status = "threw"

\* the three notifications createSafeNotification can render for m
TextRendering(m) ==
    Str(ToStr(Get(m, "sender")) \o " texted \"" \o ToStr(Get(m, "text")) \o "\"")
ImageRendering(m) ==
    Str(ToStr(Get(m, "sender")) \o " sent an image (" \o ToStr(Get(m, "width"))
        \o "x" \o ToStr(Get(m, "height")) \o ")")
VideoRendering(m) ==
    Str(ToStr(Get(m, "sender")) \o " sent a video ("
        \o ToString(Get(m, "duration").val \div 60) \o ":"
        \o ToString(Get(m, "duration").val % 60) \o ")")

\* C3: a message that has a text property and also passes the image guard or
\* the video guard is classified as text: createSafeNotification returns the
\* text notification, never the image or the video one.
C3_TextWinsTies ==
    (result.fn = "createSafeNotification"
        /\ HasKey(message, "text")
        /\ (isImageMessage(message) \/ isVideoMessage(message)))
    => /\ result.status = "returned"
       /\ result.value = TextRendering(message)
       /\ isImageMessage(message) => result.value # ImageRendering(message)
       /\ isVideoMessage(message) => result.value # VideoRendering(message)

\* C3 witness: a message with text, imageUrl, width and height was rendered
C3_Witness ==
    /\ result.fn = "createSafeNotification"
    /\ HasKey(message, "text")
    /\ isImageMessage(message)
    /\ isVideoMessage(message)
    /\ result.value = Str("Alice texted \"hi\"")

\* C4: a value that passed assert(data, NotificationSchema) is accepted by one
\* of the three is() tests of displayLastNotification; the final else branch
\* is never taken.
C4_NeverBranchUnreachable ==
    /\ branch # "never"
    /\ pc = "displayLastNotification:branch" =>
          \/ is(result.value, FriendRequestSchema)
          \/ is(result.value, NewMessageSchema)
          \/ is(result.value, ApplicationUpdateSchema)

\* C4 witness: displayLastNotification took its last is() branch
C4_Witness ==
    /\ branch = "applicationUpdate"
    /\ checked = "NotificationSchema"
    /\ pc = "done"

\* whether value n matches the named variant's schema
MatchesVariant(n, name) ==
    CASE name = "friendRequest"     -> is(n, FriendRequestSchema)
      [] name = "newMessage"        -> is(n, NewMessageSchema)
      [] name = "applicationUpdate" -> is(n, ApplicationUpdateSchema)

VariantNames == {"friendRequest", "newMessage", "applicationUpdate"}

\* C5: a value accepted by NotificationSchema matches exactly one of
\* FriendRequestSchema, NewMessageSchema and ApplicationUpdateSchema, so the
\* branch displayLastNotification takes is that variant whatever the order of
\* the is() tests.
C5_ExactlyOneVariant ==
    (result.fn = "getLastNotification" /\ result.status = "returned") =>
        /\ Cardinality({name \in VariantNames : MatchesVariant(result.value, name)}) = 1
        /\ \A name \in VariantNames :
              MatchesVariant(result.value, name)
                  => displayLastNotification(result.value) = name

\* C5 witness: getLastNotification returned a value that is a new message
C5_Witness ==
    /\ result.fn = "getLastNotification"
    /\ result.status = "returned"
    /\ pc = "displayLastNotification:branch"
    /\ MatchesVariant(result.value, "newMessage")

\* a payload in which a field declared number() holds a numeric-looking
\* string, or a field declared string() holds a number
HoldsWrongKind(v) ==
    \/ Get(v, "timestamp") = Str("5")
    \/ Get(v, "reactions") = ReactionsBad
    \/ Get(v, "image") = ImageWidthString
    \/ Get(v, "id") = Num(42)
    \/ Get(v, "text") = Num(7)

\* C6: validation does not coerce: a payload whose timestamp (or a reaction
\* count, or an image width) is a numeric-looking string, or whose id or text
\* is a number, is rejected by the assert against MessageSchema and is never
\* returned by fetchMessage.
C6_NoCoercion ==
    (result.fn = "fetchMessage" /\ data.kind = "object" /\ HoldsWrongKind(data))
    => /\ result.status = "threw"
       /\ ~is(data, MessageSchema)

\* C6 witness: the only fault of the rejected payload is its timestamp "5"
C6_Witness ==
    /\ result.fn = "fetchMessage"
    /\ result.status = "threw"
    /\ data = Obj(<<"id", "sender", "timestamp">>,
                  [id |-> Str("42"), sender |-> Str("Alice"), timestamp |-> Str("5")])

\* the raw payload the finished validation step of the running call judged
\* malformed
Malformed ==
    \/ result.fn = "fetchMessage" /\ data.kind # "undefined"
          /\ ~is(data, MessageSchema)
    \/ result.fn \in {"getLastNotification", "displayLastNotification"}
          /\ data.kind # "undefined" /\ ~is(data, NotificationSchema)

C8_ProcessOnlyValidated ==
    /\ processed # <<>> =>
          /\ checked = "MessageSchema"
          /\ processed[1].message = data
          /\ is(processed[1].message, MessageSchema)
    /\ (data.kind # "undefined" /\ pc \in {"fetchAndProcessMessage:process", "done"}
           /\ result.fn = "fetchMessage" /\ ~is(data, MessageSchema))
          => processed = <<>> /\ pc = "done"

\* C8 witness: processMessage ran on a validated message with reactions and
\* a nested image
C8_Witness ==
    /\ processed # <<>>
    /\ Get(processed[1].message, "reactions") = ReactionsOk
    /\ Get(processed[1].message, "image") = ImageOk
    /\ processed[1].log = <<"Sent 1 minutes ago", "Reactions: 3">>

\* C9: fetchMessage, getLastNotification and fetchConversation return the
\* payload only after it was checked against a schema.
C9_ValidatedBeforeReturned ==
    (result.status = "returned"
        /\ result.fn \in {"fetchMessage", "getLastNotification", "fetchConversation"})
    => checked # "none"

\* every declared field of MessageSchema is present or absent with the right
\* kind, leaving undeclared keys aside
DeclaredFieldsOk(v) ==
    /\ v.kind = "object"
    /\ Get(v, "id").kind = "string"
    /\ Get(v, "sender").kind = "string"
    /\ Get(v, "text").kind \in {"undefined", "string"}
    /\ Get(v, "timestamp").kind = "number"
    /\ Get(v, "reactions") \in {Undefined, ReactionsOk}
    /\ Get(v, "image") \in {Undefined, ImageOk}
    /\ Get(v, "video") \in {Undefined, VideoOk}

\* C10: a payload that has every declared field of MessageSchema with the
\* right kind plus an undeclared key (extra: "ignored") is accepted by the
\* validation in fetchMessage.
C10_ExtraKeysTolerated ==
    (result.fn = "fetchMessage" /\ DeclaredFieldsOk(data) /\ HasKey(data, "extra"))
    => result.status = "returned"


\* the positions in the recorded failures whose path is exactly <<key>>
FailuresAt(key) == {i \in 1..Len(failures) : failures[i].path = <<key>>}

\* C11: validating an object that lacks id and timestamp against
\* MessageSchema yields exactly one failure for id and one for timestamp, the
\* one for id first, whatever the order of the keys of the raw value; for
\* {sender} alone these two are the only failures.
C11_MissingFieldsInDeclarationOrder ==
    (checked = "MessageSchema" /\ data.kind = "object"
        /\ ~HasKey(data, "id") /\ ~HasKey(data, "timestamp"))
    => /\ Cardinality(FailuresAt("id")) = 1
       /\ Cardinality(FailuresAt("timestamp")) = 1
       /\ \A i \in FailuresAt("id"), j \in FailuresAt("timestamp") : i < j
       /\ failures[1] = Failure(<<"id">>, "string")
       /\ Keys(data) = <<"sender">> =>
             failures = <<Failure(<<"id">>, "string"),
                          Failure(<<"timestamp">>, "number")>>

\* C11 witness: a raw value written extra first, sender second, was validated
C11_Witness ==
    /\ checked = "MessageSchema"
    /\ Keys(data) = <<"extra", "sender">>
    /\ Len(failures) = 3
    /\ failures[2] = Failure(<<"timestamp">>, "number")


\* the positions of the elements of array a that are not numbers, ascending
NonNumberIndices(a) ==
    SelectSeq([i \in 1..Len(a) |-> i], LAMBDA i : a[i].kind # "number")

\* the answerIds array of a completion holding exactly one well-formed theme
SingleThemeIds(v) == Get(Get(Get(v, "themes"), "0"), "answerIds").val

IsSingleTheme(v) ==
    /\ Keys(v) = <<"themes">>
    /\ Get(v, "themes").kind = "array"
    /\ Len(Get(v, "themes").val) = 1

\* C12: validating an array against array(number()) does not stop at the
\* first bad element: the failures are one per non-number element, each with
\* the element's index as the last step of its path, in ascending index
\* order; [1, "x", 3, "y"] gives exactly two, at indices 1 and 3.
C12_EveryBadElementReported ==
    (checked = "ChatGPTResponseDataType" /\ IsSingleTheme(data)) =>
        LET a   == SingleThemeIds(data)
            idx == NonNumberIndices(a)
        IN  /\ failures =
                  [k \in 1..Len(idx) |->
                      Failure(<<"themes", "0", "answerIds", ToString(idx[k] - 1)>>,
                              "number")]
            /\ a = <<Num(1), Str("x"), Num(3), Str("y")>> =>
                  failures =
                     <<Failure(<<"themes", "0", "answerIds", "1">>, "number"),
                       Failure(<<"themes", "0", "answerIds", "3">>, "number")>>

\* C12 witness: [1, "x", 3, "y"] was validated and two failures were recorded
C12_Witness ==
    /\ checked = "ChatGPTResponseDataType"
    /\ IsSingleTheme(data)
    /\ SingleThemeIds(data) = <<Num(1), Str("x"), Num(3), Str("y")>>
    /\ Len(failures) = 2
    /\ result.status = "threw"


RequiredOkNoExtra(v) ==
    /\ v.kind = "object"
    /\ Get(v, "id").kind = "string"
    /\ Get(v, "sender").kind = "string"
    /\ Get(v, "timestamp").kind = "number"
    /\ ~HasKey(v, "extra")

\* C14: for the optional fields text, reactions, image and video of
\* MessageSchema, a payload (otherwise valid) is accepted exactly when each of
\* them is absent or holds a value of its inner schema; an absent field never
\* causes rejection and a present but malformed one (image without width,
\* video without duration, text 7, a reaction count "3") always does.
C14_OptionalFields ==
    (result.fn = "fetchMessage" /\ RequiredOkNoExtra(data)) =>
        /\ (result.status = "returned") = DeclaredFieldsOk(data)
        /\ (\A f \in {"text", "reactions", "image", "video"} : ~HasKey(data, f))
              => result.status = "returned"
        /\ Get(data, "image") \in {ImageNoWidth, ImageWidthString}
              => result.status = "threw"
        /\ Get(data, "video") = VideoNoDuration => result.status = "threw"

\* C14 witness: the only fault of the rejected payload is its image, which
\* lacks width
C14_Witness ==
    /\ result.fn = "fetchMessage"
    /\ result.status = "threw"
    /\ data = Obj(<<"id", "sender", "timestamp", "image">>,
                  [id |-> Str("42"), sender |-> Str("Alice"), timestamp |-> Num(5),
                   image |-> ImageNoWidth])
    /\ failures = <<Failure(<<"image", "width">>, "number")>>


\* a step that is a call of sendMessage
IsSendMessageCall == pc = "idle" /\ result'.fn = "sendMessage"

\* C15 as stated: a call of sendMessage starts no network request and
\* changes nothing outside its returned response.
C15_SendMessageStartsNoRequest ==
    [][IsSendMessageCall =>
          UNCHANGED <<requests, data, checked, failures, processed, branch>>]_vars

\* C15 amended: a call of sendMessage starts exactly one network request (the
\* POST of the message, which it does not await) and changes nothing else
\* outside its returned response.
C15_SendMessageStartsOneRequest ==
    [][IsSendMessageCall =>
          /\ requests' = requests + 1
          /\ UNCHANGED <<data, checked, failures, processed, branch>>]_vars

\* C15 witness: sendMessage has returned a text response and its request is
\* the one in flight
C15_Witness ==
    /\ result.fn = "sendMessage"
    /\ result.status = "returned"
    /\ message \in TextMessages
    /\ requests = 1
    /\ pc = "done"


\* a step in which fetchMessage or getLastNotification validates
IsValidationStep ==
    checked' # checked /\ checked' \in {"MessageSchema", "NotificationSchema"}

\* C16: in fetchMessage and getLastNotification the fetch completes before
\* the JSON parse, and the parse before the validation starts; the validating
\* step performs no I/O and does not suspend (it ends with the function
\* returning or throwing); and the payload is returned to the caller only by
\* the step that validated it.
C16_FetchParseValidateReturn ==
    [][ /\ IsValidationStep =>
              /\ pc \in {"fetchMessage:assert", "getLastNotification:assert"}
              /\ data.kind # "undefined"
              /\ data' = data
              /\ requests' = requests
              /\ result'.status \in {"returned", "threw"}
              /\ pc' \in {"fetchAndProcessMessage:process",
                          "displayLastNotification:branch", "done"}
        /\ (pc' # pc /\ pc' = "fetchMessage:assert") =>
              pc = "fetchMessage:json" /\ data'.kind # "undefined"
        /\ (pc' # pc /\ pc' = "getLastNotification:assert") =>
              pc = "getLastNotification:json" /\ data'.kind # "undefined"
        /\ (pc' # pc /\ pc' = "fetchMessage:json") => pc = "fetchMessage:fetch"
        /\ (pc' # pc /\ pc' = "getLastNotification:json") =>
              pc = "getLastNotification:fetch"
        /\ (result' # result /\ result'.status = "returned"
               /\ result'.fn \in {"fetchMessage", "getLastNotification"}) =>
              IsValidationStep /\ result'.value = data
      ]_vars

\* C16 witness: fetchMessage has returned a payload after fetch, parse and
\* validation, and its caller has not run yet
C16_Witness ==
    /\ pc = "fetchAndProcessMessage:process"
    /\ checked = "MessageSchema"
    /\ result.status = "returned"
    /\ result.value = data
    /\ Get(data, "video") = VideoOk


\* the guards (by the name of their variant) that answered true
TrueGuards(v) == {g \in {"text", "image", "video"} : Get(v, g) = Bool(TRUE)}

\* C17: for every BetterMessage exactly one of betterIsTextMessage,
\* betterIsImageMessage and betterIsVideoMessage returns true, it is the one
\* named by the type field, and every BetterMessage with the same type gets
\* the same three answers whatever its other fields are.
C17_ExactlyOneGuardByType ==
    result.fn = "betterIs" =>
        /\ Cardinality(TrueGuards(result.value)) = 1
        /\ \A g \in TrueGuards(result.value) : Get(message, "type") = Str(g)
        /\ \A m2 \in BetterMessages :
              Get(m2, "type") = Get(message, "type") =>
                 /\ Bool(betterIsTextMessage(m2)) = Get(result.value, "text")
                 /\ Bool(betterIsImageMessage(m2)) = Get(result.value, "image")
                 /\ Bool(betterIsVideoMessage(m2)) = Get(result.value, "video")

\* C17 witness: a text message that also carries imageUrl and videoUrl was
\* classified
C17_Witness ==
    /\ result.fn = "betterIs"
    /\ Get(message, "type") = Str("text")
    /\ HasKey(message, "imageUrl") /\ HasKey(message, "videoUrl")
    /\ TrueGuards(result.value) = {"text"}


\* the batches of a returned array of arrays, joined in order
RECURSIVE Concat(_)
Concat(batches) ==
    IF batches = <<>> THEN <<>>
    ELSE Head(batches).val \o Concat(Tail(batches))

BatchLengths(batches) == [j \in 1..Len(batches) |-> Len(batches[j].val)]

\* C18: batchArray partitions its input: the batches joined in order are the
\* input array, every batch is non-empty and holds at most maxBatchSize
\* elements, every batch but the last holds exactly maxBatchSize, and 10
\* elements give batches of 3,3,3,1 for size 3 and 4,4,2 for size 4.
C18_BatchArrayPartitions ==
    result.fn = "batchArray" =>
        LET items == Get(message, "array").val
            size  == Get(message, "maxBatchSize").val
            lens  == BatchLengths(result.value.val)
        IN /\ result.status = "returned"
           /\ Concat(result.value.val) = items
           /\ \A j \in 1..Len(lens) : lens[j] >= 1 /\ lens[j] <= size
           /\ \A j \in 1..(Len(lens) - 1) : lens[j] = size
           /\ (Len(items) = 10 /\ size = 3) => lens = <<3, 3, 3, 1>>
           /\ (Len(items) = 10 /\ size = 4) => lens = <<4, 4, 2>>

\* C18 witness: the ten element array was split into batches of 3, 3, 3 and 1
C18_Witness ==
    /\ result.fn = "batchArray"
    /\ Len(Get(message, "array").val) = 10
    /\ Get(message, "maxBatchSize") = Num(3)
    /\ BatchLengths(result.value.val) = <<3, 3, 3, 1>>
    /\ result.value.val[4] = Arr(<<Num(10)>>)


\* the decimal string of a number as the usage comments write it
StringForm(v) ==
    IF v = NaN THEN Str("NaN")
    ELSE IF v.val < 0 THEN Str("-" \o ToString(0 - v.val))
    ELSE Str(ToString(v.val))

\* the parts of the transformBasedOnParameter contract that do not concern
\* the "bool" branch
TransformOtherBranches ==
    LET value == Get(message, "value")
        type  == Get(message, "type")
    IN /\ type = Str("num") => result.status = "returned" /\ result.value = value
       /\ type = Str("str") =>
             result.status = "returned" /\ result.value = StringForm(value)
       /\ type \notin {Str("num"), Str("str"), Str("bool")} =>
             result.status = "threw" /\ result.value = Err("Invalid type")

\* C19 as stated: "num" returns value unchanged, "str" its string form, "bool"
\* the boolean (value is non-zero), any other type raises "Invalid type".
C19_BoolIsNonZero ==
    result.fn = "transformBasedOnParameter" =>
        /\ TransformOtherBranches
        /\ Get(message, "type") = Str("bool") =>
              /\ result.status = "returned"
              /\ result.value = Bool(Get(message, "value") # Num(0))

\* C19 amended: "num" returns value unchanged, "str" its string form, "bool"
\* the boolean (value is neither zero nor NaN), any other type raises
\* "Invalid type" and returns nothing.
C19_BoolIsNonZeroAndNotNaN ==
    result.fn = "transformBasedOnParameter" =>
        /\ TransformOtherBranches
        /\ Get(message, "type") = Str("bool") =>
              /\ result.status = "returned"
              /\ result.value = Bool(/\ Get(message, "value") # Num(0)
                                     /\ Get(message, "value") # NaN)

\* C19 witness: NaN was transformed with "bool" and gave false
C19_Witness ==
    /\ result.fn = "transformBasedOnParameter"
    /\ Get(message, "type") = Str("bool")
    /\ Get(message, "value") = NaN
    /\ result.value = Bool(FALSE)


\* m has the fields of TextMessage, of ImageMessage or of VideoMessage with
\* the declared kinds
ConformsToTextMessage(m) ==
    HasKey(m, "text") /\ TypeOf(Get(m, "text")) = "string"

ConformsToImageMessage(m) ==
    /\ HasKey(m, "imageUrl") /\ TypeOf(Get(m, "imageUrl")) = "string"
    /\ HasKey(m, "width")    /\ TypeOf(Get(m, "width")) = "number"
    /\ HasKey(m, "height")   /\ TypeOf(Get(m, "height")) = "number"

ConformsToVideoMessage(m) ==
    /\ HasKey(m, "videoUrl") /\ TypeOf(Get(m, "videoUrl")) = "string"
    /\ HasKey(m, "duration") /\ TypeOf(Get(m, "duration")) = "number"

ConformsToMessage(m) ==
    /\ \A k \in {"id", "sender"} : HasKey(m, k) /\ TypeOf(Get(m, k)) = "string"
    /\ HasKey(m, "timestamp") /\ TypeOf(Get(m, "timestamp")) = "number"
    /\ \/ ConformsToTextMessage(m)
       \/ ConformsToImageMessage(m)
       \/ ConformsToVideoMessage(m)

\* C20: for every value that conforms to the Message union (a text message,
\* an image message with string imageUrl and numeric width and height, or a
\* video message with string videoUrl and numeric duration),
\* createSafeNotification returns a string and does not reach its final throw
\* "Unknown message type".
C20_ConformingNeverThrows ==
    (result.fn = "createSafeNotification" /\ ConformsToMessage(message)) =>
        /\ result.status = "returned"
        /\ TypeOf(result.value) = "string"
        /\ result.value # Err("Unknown message type")

\* C20 witness: a video message that carries an imageUrl without width and
\* height, and is no text message, was rendered as a video
C20_Witness ==
    /\ result.fn = "createSafeNotification"
    /\ ConformsToVideoMessage(message)
    /\ ~ConformsToTextMessage(message) /\ ~HasKey(message, "text")
    /\ HasKey(message, "imageUrl") /\ ~ConformsToImageMessage(message)
    /\ result.status = "returned"
    /\ result.value = Str("Alice sent a video (2:5)")


\* C21: createNotification fails with a runtime error instead of returning a
\* notification string when given a message without textContent that has
\* imageUrl but no width/height (imageMessage) or videoUrl but no duration
\* (videoMessage).
C21_MissingFieldsRaise ==
    (result.fn = "createNotification" /\ message \in {imageMessage, videoMessage})
        => result.status = "threw"


\* the positions of text where "badWord" occurs in any letter case
Occurrences(text) ==
    {i \in 1..(Len(text) - 6) : LowerCase(SubSeq(text, i, i + 6)) = "badword"}

\* text with every occurrence replaced by "***", position by position from i:
\* an occurrence's first character becomes "***", its other six vanish, every
\* other character stays
RECURSIVE ReplacedFrom(_, _)
ReplacedFrom(text, i) ==
    IF i > Len(text) THEN ""
    ELSE (IF i \in Occurrences(text) THEN "***"
          ELSE IF \E j \in Occurrences(text) : j < i /\ i <= j + 6 THEN ""
          ELSE SubSeq(text, i, i))
         \o ReplacedFrom(text, i + 1)

Replaced(text) == Str(ReplacedFrom(text.val, 1))

\* message.metadata?.replies?.messages
RepliesMessages(m) == Get(Get(Get(m, "metadata"), "replies"), "messages")

\* C22: getSanitizedMessageParts sanitizes only provided fields: the result
\* has a text field exactly when the input's text is defined, a metadata field
\* exactly when the input's metadata.replies.messages is defined, never a
\* sender or timestamp field, every returned string has each case-insensitive
\* occurrence of "badWord" replaced by "***", and the input object is not
\* modified.
C22_SanitizesOnlyProvidedFields ==
    result.fn = "getSanitizedMessageParts" =>
        LET input == Get(message, "before")
            out   == result.value
        IN /\ result.status = "returned"
           /\ HasKey(out, "text") <=> Get(input, "text") # Undefined
           /\ HasKey(out, "metadata") <=> RepliesMessages(input) # Undefined
           /\ ~HasKey(out, "sender") /\ ~HasKey(out, "timestamp")
           /\ HasKey(out, "text") =>
                 Get(out, "text") = Replaced(Get(input, "text"))
           /\ HasKey(out, "metadata") =>
                 /\ Len(RepliesMessages(out).val) = Len(RepliesMessages(input).val)
                 /\ \A i \in 1..Len(RepliesMessages(input).val) :
                       RepliesMessages(out).val[i]
                           = Replaced(RepliesMessages(input).val[i])
                 /\ Get(Get(out, "metadata"), "edited")
                       = Get(Get(input, "metadata"), "edited")
           /\ Get(message, "after") = input

\* C22 witness: a message with sender, timestamp, a text holding two
\* occurrences in different case and replies holding three was sanitized
C22_Witness ==
    /\ result.fn = "getSanitizedMessageParts"
    /\ HasKey(Get(message, "before"), "sender")
    /\ HasKey(Get(message, "before"), "timestamp")
    /\ Get(Get(message, "before"), "text") = Str("a BADWORD and badword!")
    /\ Get(result.value, "text") = Str("a *** and ***!")
    /\ RepliesMessages(result.value)
          = Arr(<<Str("***?"), Str("fine"), Str("x******")>>)
    /\ Keys(result.value) = <<"text", "metadata">>


\* C23: sendMessage and sendMessage_Bad are equivalent on handled variants:
\* for every text, image or video message the two return responses with the
\* same type, deliveryStatus and content (uploadStatus "complete" and progress
\* 100 for images, processingStatus "processing" and the input thumbnail for
\* videos), differing at most in the generated id and timestamp.
C23_SendMessageVariantsAgree ==
    result.fn = "sendMessage_Bad, sendMessage" =>
        LET bad  == result.value.val[1]
            good == result.value.val[2]
        IN /\ bad.kind = "object" /\ good.kind = "object"
           /\ SeqToSet(Keys(bad)) = SeqToSet(Keys(good))
           /\ \A k \in SeqToSet(Keys(bad)) \ {"id", "timestamp"} :
                 Get(bad, k) = Get(good, k)
           /\ Get(good, "type") = Get(message, "type")
           /\ Get(good, "deliveryStatus") = Str("sent")
           /\ Get(message, "type") = Str("image") =>
                 /\ Get(Get(bad, "content"), "uploadStatus") = Str("complete")
                 /\ Get(Get(bad, "content"), "progress") = Num(100)
           /\ Get(message, "type") = Str("video") =>
                 /\ Get(Get(bad, "content"), "processingStatus") = Str("processing")
                 /\ Keys(Get(bad, "content"))
                       = <<"videoUrl", "processingStatus", "thumbnail">>
                 /\ Get(Get(bad, "content"), "thumbnail")
                       = Get(message, "thumbnail")

\* C23 witness: a video message with a thumbnail went through both functions;
\* the responses differ in id and timestamp and agree on the content
C23_Witness ==
    /\ result.fn = "sendMessage_Bad, sendMessage"
    /\ Get(message, "thumbnail") = Str("thumb.jpg")
    /\ Get(result.value.val[1], "id") # Get(result.value.val[2], "id")
    /\ Get(result.value.val[1], "timestamp") # Get(result.value.val[2], "timestamp")
    /\ Get(result.value.val[1], "content") = Get(result.value.val[2], "content")
    /\ Get(Get(result.value.val[2], "content"), "thumbnail") = Str("thumb.jpg")


\* C24: sendMessage returns synchronously with deliveryStatus "sent" for every
\* handled message without waiting for the fetch it started (the request is
\* still in flight when the call is done); in every interleaving, whether
\* that request later settles or never does, the response already returned is
\* not changed and its deliveryStatus is never "failed".
C24_ResponseIndependentOfRequest ==
    [][/\ (IsSendMessageCall /\ message' \in HandledMessages) =>
             /\ pc' = "done"
             /\ result'.status = "returned"
             /\ Get(result'.value, "deliveryStatus") = Str("sent")
             /\ requests' = requests + 1
       /\ requests' < requests => UNCHANGED <<result, message, pc>>
       /\ (result'.fn = "sendMessage" /\ message' \in HandledMessages) =>
             Get(result'.value, "deliveryStatus") # Str("failed")]_vars

\* C24 witness: sendMessage has returned, every request has settled since, and
\* the response still says "sent"
C24_Witness ==
    /\ pc = "done"
    /\ result.fn = "sendMessage"
    /\ message \in TextMessages
    /\ requests = 0
    /\ Get(result.value, "deliveryStatus") = Str("sent")

====
